---------------------------- MODULE Spec2Model ----------------------------
(***************************************************************************)
(* A model of the image discovery-and-acquisition pipeline:                *)
(*   - extract_instagram_urls.py     (the URL classifier)                  *)
(*   - instagram_scraper_automated.py (scroll-stabilisation, two-channel   *)
(*                                     URL capture, persisting the list)   *)
(*   - download_instagram_images.py  (file naming, skip-if-exists, the     *)
(*                                     retrying fetch, the batch loop)     *)
(* URLs, file names and header values are TLA+ strings; the substring and  *)
(* regular-expression tests of the Python code are computed on them.       *)
(***************************************************************************)
EXTENDS Integers, Sequences, FiniteSets, TLC

(***************************************************************************)
(* String helpers: Python's str operations used by the code.               *)
(***************************************************************************)

\* s[i] (1-based), "" outside the string
Ch(s, i) == IF i >= 1 /\ i <= Len(s) THEN SubSeq(s, i, i) ELSE ""

\* Python: s[a-1:b], the slice clamped to the string
Slice(s, a, b) ==
    LET lo == IF a < 1 THEN 1 ELSE a
        hi == IF b > Len(s) THEN Len(s) ELSE b
    IN  IF lo > hi THEN "" ELSE SubSeq(s, lo, hi)

\* Python: pat in s
Contains(s, pat) ==
    \E k \in 1..(Len(s) - Len(pat) + 1) : SubSeq(s, k, k + Len(pat) - 1) = pat

\* Python: s.startswith(pat)
StartsWith(s, pat) == Len(s) >= Len(pat) /\ SubSeq(s, 1, Len(pat)) = pat

\* Python: any(pattern in s for pattern in patterns)
AnyIn(patterns, s) == \E pat \in patterns : Contains(s, pat)

\* s.find(pat, from): the least position >= from where pat occurs, 0 if none
Find(s, pat, from) ==
    LET hits == {k \in from..(Len(s) - Len(pat) + 1) :
                     SubSeq(s, k, k + Len(pat) - 1) = pat}
    IN  IF hits = {} THEN 0 ELSE CHOOSE k \in hits : \A j \in hits : k <= j

\* s.rfind(pat): the greatest position where pat occurs, 0 if none
RFind(s, pat) ==
    LET hits == {k \in 1..(Len(s) - Len(pat) + 1) :
                     SubSeq(s, k, k + Len(pat) - 1) = pat}
    IN  IF hits = {} THEN 0 ELSE CHOOSE k \in hits : \A j \in hits : k >= j

DigitChars == {"0", "1", "2", "3", "4", "5", "6", "7", "8", "9"}

IsDigit(c) == c \in DigitChars

DigitVal(c) ==
    CASE c = "0" -> 0 [] c = "1" -> 1 [] c = "2" -> 2 [] c = "3" -> 3
      [] c = "4" -> 4 [] c = "5" -> 5 [] c = "6" -> 6 [] c = "7" -> 7
      [] c = "8" -> 8 [] c = "9" -> 9

DigitStr(d) ==
    CASE d = 0 -> "0" [] d = 1 -> "1" [] d = 2 -> "2" [] d = 3 -> "3"
      [] d = 4 -> "4" [] d = 5 -> "5" [] d = 6 -> "6" [] d = 7 -> "7"
      [] d = 8 -> "8" [] d = 9 -> "9"

\* ord(c) for the characters of the URLs of the model
CharCode(c) ==
    CASE c = "a" -> 97 [] c = "b" -> 98 [] c = "c" -> 99 [] c = "d" -> 100
      [] c = "e" -> 101 [] c = "f" -> 102 [] c = "g" -> 103 [] c = "h" -> 104
      [] c = "i" -> 105 [] c = "j" -> 106 [] c = "k" -> 107 [] c = "l" -> 108
      [] c = "m" -> 109 [] c = "n" -> 110 [] c = "o" -> 111 [] c = "p" -> 112
      [] c = "q" -> 113 [] c = "r" -> 114 [] c = "s" -> 115 [] c = "t" -> 116
      [] c = "u" -> 117 [] c = "v" -> 118 [] c = "w" -> 119 [] c = "x" -> 120
      [] c = "y" -> 121 [] c = "z" -> 122 [] c = "0" -> 48 [] c = "1" -> 49
      [] c = "2" -> 50 [] c = "3" -> 51 [] c = "4" -> 52 [] c = "5" -> 53
      [] c = "6" -> 54 [] c = "7" -> 55 [] c = "8" -> 56 [] c = "9" -> 57
      [] c = ":" -> 58 [] c = "/" -> 47 [] c = "." -> 46 [] c = "_" -> 95
      [] c = "-" -> 45 [] c = "?" -> 63 [] c = "=" -> 61 [] c = "&" -> 38
      [] c = "#" -> 35 [] c = "," -> 44 [] c = " " -> 32
      [] OTHER -> 0

\* Python: a < b on strings (by code point, a proper prefix first)
StrLess(a, b) ==
    LET n == IF Len(a) < Len(b) THEN Len(a) ELSE Len(b)
        diff == {k \in 1..n : Ch(a, k) # Ch(b, k)}
    IN  IF diff = {} THEN Len(a) < Len(b)
        ELSE LET k == CHOOSE d \in diff : \A j \in diff : d <= j
             IN  CharCode(Ch(a, k)) < CharCode(Ch(b, k))

\* Python: sorted(S) for a set of strings: the k-th is the one with k - 1
\* strings of S below it
Sorted(S) ==
    [k \in 1..Cardinality(S) |->
        CHOOSE x \in S : Cardinality({y \in S : StrLess(y, x)}) = k - 1]

\* Python: int(s) for a string of decimal digits
RECURSIVE StrToInt(_)
StrToInt(s) ==
    IF Len(s) = 0 THEN 0
    ELSE 10 * StrToInt(SubSeq(s, 1, Len(s) - 1)) + DigitVal(Ch(s, Len(s)))

\* Python: str(n) for n >= 0
RECURSIVE IntToStr(_)
IntToStr(n) == IF n < 10 THEN DigitStr(n) ELSE IntToStr(n \div 10) \o DigitStr(n % 10)

\* the length of the run of decimal digits of s that starts at position i
RECURSIVE DigitRun(_, _)
DigitRun(s, i) == IF IsDigit(Ch(s, i)) THEN 1 + DigitRun(s, i + 1) ELSE 0

\* Python: s.strip() / s.lstrip() / s.rstrip() for the blank and the newline
Blank == {" ", "\n", "\t"}

RECURSIVE LStrip(_)
LStrip(s) == IF Len(s) > 0 /\ Ch(s, 1) \in Blank THEN LStrip(SubSeq(s, 2, Len(s))) ELSE s

RECURSIVE RStrip(_)
RStrip(s) ==
    IF Len(s) > 0 /\ Ch(s, Len(s)) \in Blank THEN RStrip(SubSeq(s, 1, Len(s) - 1)) ELSE s

Strip(s) == LStrip(RStrip(s))

\* Python: s.split(sep) for a one-character separator
RECURSIVE Split(_, _)
Split(s, sep) ==
    LET k == Find(s, sep, 1)
    IN  IF k = 0 THEN <<s>>
        ELSE <<SubSeq(s, 1, k - 1)>> \o Split(SubSeq(s, k + 1, Len(s)), sep)

\* Python: s.split() (on runs of blanks, no empty fields)
RECURSIVE SplitBlank(_)
SplitBlank(s) ==
    LET t == LStrip(s)
        ends == {k \in 1..Len(t) : Ch(t, k) \in Blank}
        k == IF ends = {} THEN Len(t) + 1 ELSE CHOOSE e \in ends : \A j \in ends : e <= j
    IN  IF Len(t) = 0 THEN <<>>
        ELSE <<SubSeq(t, 1, k - 1)>> \o SplitBlank(SubSeq(t, k, Len(t)))


(***************************************************************************)
(* extract_instagram_urls.py: the URL classifier.                          *)
(***************************************************************************)

\* re.search(r'[ps](\d{3,4})x\d{3,4}', url) tried at position k: the number of
\* digits of group 1 when the pattern matches there, 0 when it does not
SizeMatchAt(url, k) ==
    IF Ch(url, k) \notin {"p", "s"} THEN 0
    ELSE IF DigitRun(url, k + 1) >= 4 /\ Ch(url, k + 5) = "x" /\ DigitRun(url, k + 6) >= 3
         THEN 4
    ELSE IF DigitRun(url, k + 1) >= 3 /\ Ch(url, k + 4) = "x" /\ DigitRun(url, k + 5) >= 3
         THEN 3
    ELSE 0

\* the positions where the size pattern matches
SizeMatches(url) == {k \in 1..Len(url) : SizeMatchAt(url, k) > 0}

\* re.search returns the leftmost match; int(size_match.group(1))
FirstSize(url) ==
    LET k == CHOOSE m \in SizeMatches(url) : \A j \in SizeMatches(url) : m <= j
    IN  StrToInt(SubSeq(url, k + 1, k + SizeMatchAt(url, k)))

ProfilePattern == "/t51.2885-19/"

\* a list of post patterns that misses two of them
PostPatterns_one == {"/t51.82787-15/"}

PostPatterns == {"/t51.82787-15/", "/t51.75761-15/", "/t51.71878-15/"}

\* a list of small thumbnails that misses the tokens without underscore
SmallThumbs_underscored == {"_s150x150", "_s100x100"}

SmallThumbs == {"_s150x150", "_s100x100", "s150x150", "s100x100"}

ObviousThumbs == {"_s150", "_s100", "s150x150", "s100x100"}

is_full_size_image(url) ==
    IF Contains(url, ProfilePattern) THEN FALSE
    ELSE IF AnyIn(SmallThumbs, url) THEN FALSE
    ELSE IF AnyIn(PostPatterns, url) THEN TRUE
    ELSE IF SizeMatches(url) # {} /\ FirstSize(url) >= 640 THEN TRUE
    ELSE IF Contains(url, "instagram") \/ Contains(url, "fbcdn.net")
         THEN ~AnyIn(ObviousThumbs, url)
    ELSE FALSE

(***************************************************************************)
(* download_instagram_images.py: file naming.                              *)
(***************************************************************************)

\* urlparse(url).path: what follows the network location, up to the query or
\* the fragment
UrlPath(url) ==
    LET a == Find(url, "://", 1)
        start == IF a = 0 THEN 0 ELSE Find(url, "/", a + 3)
        q == IF start = 0 THEN 0 ELSE Find(url, "?", start)
        f == IF start = 0 THEN 0 ELSE Find(url, "#", start)
        stop == IF q = 0 /\ f = 0 THEN Len(url) + 1
                ELSE IF q = 0 THEN f
                ELSE IF f = 0 THEN q
                ELSE IF q < f THEN q ELSE f
    IN  IF start = 0 THEN "" ELSE SubSeq(url, start, stop - 1)

ImageExts == <<"jpg", "jpeg", "png", "webp">>

\* the alternation (jpg|jpeg|png|webp) tried at position k: the first
\* alternative that matches, "" when none does
ExtAt(s, k) ==
    LET ok == {n \in 1..Len(ImageExts) :
                  Slice(s, k, k + Len(ImageExts[n]) - 1) = ImageExts[n]}
    IN  IF ok = {} \/ k > Len(s) THEN ""
        ELSE ImageExts[CHOOSE n \in ok : \A j \in ok : n <= j]

\* r'/(\d+_\d+_\d+_n\.(jpg|jpeg|png|webp))' tried at position k of the path:
\* group 1 when it matches there, "" when it does not
IdMatchAt(path, k) ==
    LET d1 == DigitRun(path, k + 1)
        p2 == k + 1 + d1 + 1
        d2 == DigitRun(path, p2)
        p3 == p2 + d2 + 1
        d3 == DigitRun(path, p3)
        p4 == p3 + d3
        ext == ExtAt(path, p4 + 3)
    IN  IF /\ Ch(path, k) = "/"
           /\ d1 > 0 /\ Ch(path, p2 - 1) = "_"
           /\ d2 > 0 /\ Ch(path, p3 - 1) = "_"
           /\ d3 > 0 /\ Slice(path, p4, p4 + 2) = "_n."
           /\ ext # ""
        THEN SubSeq(path, k + 1, p4 + 2 + Len(ext))
        ELSE ""

\* re.search(...).group(1) on the path, "" when there is no match
IdMatch(path) ==
    LET hits == {k \in 1..Len(path) : IdMatchAt(path, k) # ""}
    IN  IF hits = {} THEN ""
        ELSE IdMatchAt(path, CHOOSE k \in hits : \A j \in hits : k <= j)

\* os.path.basename(path)
Basename(path) == Slice(path, RFind(path, "/") + 1, Len(path))

\* the range of the hash of the model
HashMod == 46337

RECURSIVE Pow31(_)
Pow31(n) ==
    IF n = 0 THEN 1
    ELSE LET h == Pow31(n \div 2)
         IN  (((h * h) % HashMod) * (IF n % 2 = 1 THEN 31 ELSE 1)) % HashMod

\* the keyed polynomial hash of the characters a..b of s
RECURSIVE PyHashRange(_, _, _, _)
PyHashRange(s, a, b, seed) ==
    IF a > b THEN 0
    ELSE IF a = b THEN (CharCode(Ch(s, a)) + seed * 7919) % HashMod
    ELSE LET mid == (a + b) \div 2
         IN  (PyHashRange(s, a, mid, seed) * Pow31(b - mid)
              + PyHashRange(s, mid + 1, b, seed)) % HashMod

\* Python's hash(str): a keyed hash of the characters whose key (seed) is
\* drawn when the interpreter starts, one key per process
PyHash(s, seed) == (PyHashRange(s, 1, Len(s), seed) + seed) % HashMod

\* an index prefix that is the same for every position
Pad4_same(n) == "0000"

\* f"{index:04d}"
Pad4(n) ==
    LET s == IntToStr(n)
    IN  IF Len(s) >= 4 THEN s ELSE SubSeq("0000", 1, 4 - Len(s)) \o s

NoIndex == 0

\* get_filename_from_url(url, index) in a process whose hash key is seed
\* (index = NoIndex models index=None; the loop counts from 1)
get_filename_from_url(url, index, seed) ==
    LET path == UrlPath(url)
        base == Basename(path)
        name == IF IdMatch(path) # "" THEN IdMatch(path)
                ELSE IF base = "" \/ ~Contains(base, ".")
                     THEN "image_" \o IntToStr(PyHash(url, seed) % 1000000) \o ".jpg"
                ELSE base
    IN  IF index # NoIndex THEN Pad4(index) \o "_" \o name ELSE name

\* which of the three derivation paths names the URL
NamePath(url) ==
    LET path == UrlPath(url)
    IN  IF IdMatch(path) # "" THEN "content_id"
        ELSE IF Basename(path) = "" \/ ~Contains(Basename(path), ".") THEN "hash"
        ELSE "basename"



(***************************************************************************)
(* State.                                                                  *)
(***************************************************************************)
VARIABLES
    \* download_images_from_file / download_image
    urls_file,    \* the lines of the URL file
    urls,         \* the URLs read from it
    i,            \* the loop's index (enumerate(urls, 1)); 0 before the loop
    pc,           \* the position of the run
    filename,     \* download_image's local: the target file name
    total,        \* the retries left of the Retry object of the current get
    requests,     \* HTTP requests issued for the current URL
    seen,         \* the responses the server gave for the current URL
    result,       \* the tuple download_image returned
    successful,
    failed,
    outdir,       \* the output directory: file name -> "partial" | "complete"
    seed,         \* the hash key of the process of the run
    prev,         \* the summary of the previous run over the same directory
    requested,    \* the run has issued an HTTP request
    slept,        \* time.sleep(delay) ran after the most recent request
    attempts,     \* the URLs download_image was called for by the run, in order
    outcomes,     \* the success flags tallied by the run, in order
    kinds,        \* what the server and the disk did for each URL of the run, in order
    before,       \* the output directory as it was when the current call of download_image began
    targets,      \* the target file names derived by the run so far, by list position
    rundir,       \* the output directory as it was when the run began
    \* scrape_instagram_account / scroll_and_load_all
    spc,          \* the position of the scrape
    driver,       \* the browser session: "none" | "open" | "quit"
    last_height,  \* scroll_and_load_all's locals
    scrolls,
    iterations,   \* iterations of the scroll loop begun by the call
    scroll_cmds,  \* window.scrollTo commands issued by the call
    heights,      \* the document heights the page reported to the call
    readings,     \* the heights read after the scroll and after the nudge of the last iteration
    page_urls,    \* scrape_instagram_account's local urls
    saved,        \* the text of instagram_urls.txt
    quit_calls,   \* the calls of driver.quit()
    steps,        \* what the run has done: "scroll", "dom", "network", "write"
    abort,        \* why the run left its normal path, "none" when it has not
    dom_urls,     \* the URLs the DOM channel returned
    log_raised,   \* where the network-log channel raised: "no", "get_log", "parse"
    \* get_filename_from_url called in two processes
    n_url,
    n_index,
    n_seeds,      \* the hash keys of the two processes
    n_names,      \* the names derived so far, in order
    \* is_full_size_image applied to a URL
    c_url,
    c_verdict,    \* "none" before the call, then what it returned
    \* a URL set persisted and loaded
    r_source,     \* what produced the set: "export" or "discovery"
    r_urls,       \* the set
    r_text,       \* the text of the URL file
    r_loaded,     \* the list download_images_from_file reads from it
    r_pc

dvars == <<urls_file, urls, i, pc, filename, total, requests, seen, result,
           successful, failed, outdir, seed, prev, requested, slept,
           attempts, outcomes, kinds, before,
                   targets, rundir>>

hvars == <<quit_calls, steps, abort, dom_urls, log_raised>>

svars == <<spc, driver, last_height, scrolls, iterations, scroll_cmds, heights, readings,
           page_urls, saved, hvars>>

cvars == <<c_url, c_verdict>>

rvars == <<r_source, r_urls, r_text, r_loaded, r_pc>>

nvars == <<n_url, n_index, n_seeds, n_names, cvars, rvars>>

vars == <<dvars, svars, nvars>>

(***************************************************************************)
(* download_instagram_images.py: the session and the fetch.                *)
(***************************************************************************)

\* Retry(total=3, ...)
RetryTotal == 3

\* a retry policy that also retries a missing resource
status_forcelist_wide == {404, 429, 500, 502, 503, 504}

\* Retry(status_forcelist=[429, 500, 502, 503, 504])
status_forcelist == {429, 500, 502, 503, 504}

\* what a server may answer to one request: a status with a Content-Type, or
\* nothing within the timeout
Responses ==
    {[status |-> 200, content_type |-> "image/jpeg"],
     [status |-> 200, content_type |-> "text/html"],
     [status |-> 200, content_type |-> ""],
     [status |-> 404, content_type |-> "text/html"],
     [status |-> 503, content_type |-> "text/html"],
     [status |-> 0, content_type |-> ""]}

TimedOut(resp) == resp.status = 0

\* urllib3's Retry: a request is retried on a status of the forcelist and on a
\* read timeout
Retryable(resp) == TimedOut(resp) \/ resp.status \in status_forcelist

\* response.raise_for_status(): raises for 4xx and 5xx
RaisesForStatus(resp) == resp.status >= 400

\* a content-type check that lets everything through
IsImageType_any(content_type) == TRUE

\* 'image' in content_type
IsImageType(content_type) == Contains(content_type, "image")

None == ""

NoResult == [success |-> FALSE, filename |-> None, error |-> "(none)"]

Returned(ok, name, err) == [success |-> ok, filename |-> name, error |-> err]

\* the handlers of download_image: requests' exceptions and every other
\* Exception are caught and returned as a failure
RequestExceptions == {"HTTPError", "RetryError", "ReadTimeout", "ChunkedEncodingError"}

CaughtOnlyRequests(kind) == kind \in RequestExceptions

Caught(kind) == kind \in RequestExceptions \/ kind = "OSError"

\* an existence check that looks in the wrong directory
Exists_elsewhere(name) == FALSE

\* filepath.exists()
Exists(name) == name \in DOMAIN outdir

Written(name, state) == [n \in DOMAIN outdir \cup {name} |-> IF n = name THEN state ELSE outdir[n]]


(***************************************************************************)
(* download_instagram_images.py: the batch.                                *)
(***************************************************************************)

\* the longest URL file of the model, in lines
MaxLines == 2

UrlContentId == "https://x.fbcdn.net/v/t51.82787-15/12_34_56_n.jpg?stp=a"

UrlBasename == "https://x.fbcdn.net/v/p1080x1080/photo.png"

UrlHashed == "https://scontent.cdninstagram.com/v/media/"

\* the lines a URL file may hold: URLs of the three naming paths and a line
\* that is no URL
LineChoices == {UrlContentId, " " \o UrlHashed, "# saved"}

RECURSIVE SeqsUpTo(_, _)
SeqsUpTo(S, n) ==
    IF n = 0 THEN {<<>>}
    ELSE SeqsUpTo(S, n - 1) \cup
         {Append(q, e) : q \in {r \in SeqsUpTo(S, n - 1) : Len(r) = n - 1}, e \in S}

\* the text of a file of the given lines, each ended by a newline
RECURSIVE FileText(_)
FileText(lines) ==
    IF lines = <<>> THEN "" ELSE Head(lines) \o "\n" \o FileText(Tail(lines))

FileChoices == {FileText(q) : q \in SeqsUpTo(LineChoices, MaxLines)}

\* the hash keys a process may start with
Seeds == {1, 2}

\* for line in f: url = line.strip(); if url and url.startswith('http'): ...
RECURSIVE KeepUrls(_)
KeepUrls(lines) ==
    IF lines = <<>> THEN <<>>
    ELSE LET url == Strip(Head(lines))
         IN  IF url # "" /\ StartsWith(url, "http")
             THEN <<url>> \o KeepUrls(Tail(lines))
             ELSE KeepUrls(Tail(lines))

ReadUrls(text) == KeepUrls(Split(text, "\n"))

NoPrev == [ran |-> FALSE, seed |-> 0, successful |-> 0, failed |-> 0]

EmptyDir == [n \in {} |-> "partial"]

NoFile == "(no file)"

\* a first run on an empty output directory; nothing else is running
Init ==
    /\ urls_file \in FileChoices
    /\ urls = <<>>
    /\ i = 0
    /\ pc = "idle"
    /\ filename = None
    /\ total = 0
    /\ requests = 0
    /\ seen = {}
    /\ result = NoResult
    /\ successful = 0
    /\ failed = 0
    /\ outdir = EmptyDir
    /\ seed \in Seeds
    /\ prev = NoPrev
    /\ requested = FALSE
    /\ slept = FALSE
    /\ attempts = <<>>
    /\ outcomes = <<>>
    /\ kinds = <<>>
    /\ before = EmptyDir
    /\ targets = <<>>
    /\ rundir = EmptyDir
    /\ spc = "off"
    /\ driver = "none"
    /\ last_height = 0
    /\ scrolls = 0
    /\ iterations = 0
    /\ scroll_cmds = 0
    /\ heights = {}
    /\ readings = <<>>
    /\ page_urls = {}
    /\ saved = NoFile
    /\ quit_calls = 0
    /\ steps = {}
    /\ abort = "none"
    /\ dom_urls = {}
    /\ log_raised = "no"
    /\ n_url = None
    /\ n_index = 0
    /\ n_seeds = <<>>
    /\ n_names = <<>>
    /\ c_url = None
    /\ c_verdict = "none"
    /\ r_source = "none"
    /\ r_urls = {}
    /\ r_text = "(no file)"
    /\ r_loaded = <<>>
    /\ r_pc = "off"

\* download_images_from_file up to the loop: read the URLs, stop when there
\* are none, create the session and zero the counters
StartRun ==
    /\ pc = "idle"
    /\ urls' = ReadUrls(urls_file)
    /\ pc' = IF urls' = <<>> THEN "no_urls" ELSE "loop"
    /\ i' = 0
    /\ successful' = 0
    /\ failed' = 0
    /\ rundir' = outdir
    /\ UNCHANGED <<urls_file, filename, total, requests, seen, result, outdir,
                   seed, prev, requested, slept, attempts, outcomes, kinds, before,
                   targets>>
    /\ UNCHANGED <<svars, nvars>>

\* the loop takes the next URL and calls download_image, which derives the
\* target file name
NextUrl ==
    /\ pc = "loop"
    /\ i < Len(urls)
    /\ i' = i + 1
    /\ filename' = get_filename_from_url(urls[i + 1], i + 1, seed)
    /\ attempts' = Append(attempts, urls[i + 1])
    /\ before' = outdir
    /\ targets' = Append(targets, filename')
    /\ pc' = "call"
    /\ UNCHANGED <<urls_file, urls, total, requests, seen, result, successful,
                   failed, outdir, seed, prev, requested, slept, outcomes, kinds,
                   rundir>>
    /\ UNCHANGED <<svars, nvars>>

\* the target file exists: return True, filename, None
SkipExisting ==
    /\ pc = "call"
    /\ Exists(filename)
    /\ result' = Returned(TRUE, filename, None)
    /\ pc' = "returned"
    /\ UNCHANGED <<urls_file, urls, i, filename, total, requests, seen,
                   successful, failed, outdir, seed, prev, requested, slept,
                   attempts, outcomes, kinds, before,
                   targets, rundir>>
    /\ UNCHANGED <<svars, nvars>>

\* the target file does not exist: session.get starts with the retries of the
\* session
BeginFetch ==
    /\ pc = "call"
    /\ ~Exists(filename)
    /\ total' = RetryTotal
    /\ pc' = "get"
    /\ UNCHANGED <<urls_file, urls, i, filename, requests, seen, result,
                   successful, failed, outdir, seed, prev, requested, slept,
                   attempts, outcomes, kinds, before,
                   targets, rundir>>
    /\ UNCHANGED <<svars, nvars>>

\* an exception of the given kind raised inside download_image's try
Raise(kind, msg) ==
    IF Caught(kind)
    THEN /\ result' = Returned(FALSE, None, msg)
         /\ pc' = "returned"
    ELSE /\ result' = result
         /\ pc' = "crashed"

\* one request of session.get and what follows from its response: a retry, an
\* exception, the content-type check, opening the target file
Get ==
    /\ pc = "get"
    /\ \E resp \in Responses :
        /\ requests' = requests + 1
        /\ requested' = TRUE
        /\ slept' = FALSE
        /\ seen' = seen \cup {resp}
        /\ IF Retryable(resp)
           THEN IF total > 0
                THEN /\ total' = total - 1
                     /\ UNCHANGED <<pc, result, outdir>>
                ELSE /\ Raise(IF TimedOut(resp) THEN "ReadTimeout" ELSE "RetryError",
                              "Max retries exceeded")
                     /\ UNCHANGED <<total, outdir>>
           ELSE IF RaisesForStatus(resp)
           THEN /\ Raise("HTTPError", IntToStr(resp.status) \o " Error")
                /\ UNCHANGED <<total, outdir>>
           ELSE IF ~IsImageType(resp.content_type)
           THEN /\ result' = Returned(FALSE, None, "Not an image: " \o resp.content_type)
                /\ pc' = "returned"
                /\ UNCHANGED <<total, outdir>>
           ELSE \/ /\ outdir' = Written(filename, "partial")
                   /\ pc' = "write"
                   /\ UNCHANGED <<total, result>>
                \/ /\ Raise("OSError", "cannot open file")
                   /\ UNCHANGED <<total, outdir>>
    /\ UNCHANGED <<urls_file, urls, i, filename, successful, failed, seed,
                   prev, attempts, outcomes, kinds, before,
                   targets, rundir>>
    /\ UNCHANGED <<svars, nvars>>

\* the body is written in full, then time.sleep(delay) and return True
WriteAll ==
    /\ pc = "write"
    /\ outdir' = Written(filename, "complete")
    /\ slept' = TRUE
    /\ result' = Returned(TRUE, filename, None)
    /\ pc' = "returned"
    /\ UNCHANGED <<urls_file, urls, i, filename, total, requests, seen,
                   successful, failed, seed, prev, requested, attempts, outcomes, kinds, before,
                   targets, rundir>>
    /\ UNCHANGED <<svars, nvars>>

\* reading or writing a chunk raises: the file stays as far as it was written
WriteFails ==
    /\ pc = "write"
    /\ \E kind \in {"ChunkedEncodingError", "OSError"} : Raise(kind, "write interrupted")
    /\ UNCHANGED <<urls_file, urls, i, filename, total, requests, seen,
                   successful, failed, outdir, seed, prev, requested, slept, attempts, outcomes, kinds, before,
                   targets, rundir>>
    /\ UNCHANGED <<svars, nvars>>

\* what happened to the URL of the call that returned: one 200 answer of type
\* image/jpeg whose body is on disk in full ("image"), one 200 answer of type
\* text/html ("html"), a 503 answer to every request the session allows
\* ("always503"), anything else ("other")
Served ==
    IF /\ seen = {[status |-> 200, content_type |-> "image/jpeg"]}
       /\ Exists(filename)
       /\ outdir[filename] = "complete"
    THEN "image"
    ELSE IF seen = {[status |-> 200, content_type |-> "text/html"]} THEN "html"
    ELSE IF /\ seen = {[status |-> 503, content_type |-> "text/html"]}
            /\ requests = RetryTotal + 1
    THEN "always503"
    ELSE "other"

\* the loop body after download_image returned
Tally ==
    /\ pc = "returned"
    /\ successful' = IF result.success THEN successful + 1 ELSE successful
    /\ failed' = IF result.success THEN failed ELSE failed + 1
    /\ outcomes' = Append(outcomes, result.success)
    /\ kinds' = Append(kinds, Served)
    /\ before' = EmptyDir
    /\ UNCHANGED <<targets, rundir>>
    /\ pc' = "loop"
    /\ filename' = None
    /\ requests' = 0
    /\ seen' = {}
    /\ result' = NoResult
    /\ total' = 0
    /\ UNCHANGED <<urls_file, urls, i, outdir, seed, prev, requested, slept, attempts>>
    /\ UNCHANGED <<svars, nvars>>

\* the loop is over: the summary is printed
Finish ==
    /\ pc = "loop"
    /\ i = Len(urls)
    /\ pc' = "done"
    /\ UNCHANGED <<urls_file, urls, i, filename, total, requests, seen, result,
                   successful, failed, outdir, seed, prev, requested, slept, attempts, outcomes, kinds, before,
                   targets, rundir>>
    /\ UNCHANGED <<svars, nvars>>

\* the program is run a second time on the same file and output directory, in
\* the same process or in a new one
Rerun ==
    /\ pc = "done"
    /\ ~prev.ran
    /\ prev' = [ran |-> TRUE, seed |-> seed, successful |-> successful, failed |-> failed]
    /\ seed' \in Seeds
    /\ pc' = "idle"
    /\ urls' = <<>>
    /\ i' = 0
    /\ filename' = None
    /\ total' = 0
    /\ requests' = 0
    /\ seen' = {}
    /\ result' = NoResult
    /\ successful' = 0
    /\ failed' = 0
    /\ requested' = FALSE
    /\ slept' = FALSE
    /\ attempts' = <<>>
    /\ outcomes' = <<>>
    /\ kinds' = <<>>
    /\ before' = EmptyDir
    /\ targets' = <<>>
    /\ rundir' = EmptyDir
    /\ UNCHANGED <<urls_file, outdir>>
    /\ UNCHANGED <<svars, nvars>>

Next ==
    \/ StartRun
    \/ NextUrl
    \/ SkipExisting
    \/ BeginFetch
    \/ Get
    \/ WriteAll
    \/ WriteFails
    \/ Tally
    \/ Finish
    \/ Rerun

Spec == Init /\ [][Next]_vars

\* a file of three lines holding three different URLs, in any order
ScenarioUrls == {UrlContentId, UrlBasename, UrlHashed}

Distinct(q) == \A j, k \in DOMAIN q : q[j] = q[k] => j = k

ScenarioFiles ==
    {FileText(q) : q \in {r \in [1..Cardinality(ScenarioUrls) -> ScenarioUrls] : Distinct(r)}}

\* download_images_from_file on a file of three URLs and an empty output
\* directory
ScenarioInit ==
    /\ urls_file \in ScenarioFiles
    /\ urls = <<>>
    /\ i = 0
    /\ pc = "idle"
    /\ filename = None
    /\ total = 0
    /\ requests = 0
    /\ seen = {}
    /\ result = NoResult
    /\ successful = 0
    /\ failed = 0
    /\ outdir = EmptyDir
    /\ seed \in Seeds
    /\ prev = NoPrev
    /\ requested = FALSE
    /\ slept = FALSE
    /\ attempts = <<>>
    /\ outcomes = <<>>
    /\ kinds = <<>>
    /\ before = EmptyDir
    /\ targets = <<>>
    /\ rundir = EmptyDir
    /\ spc = "off"
    /\ driver = "none"
    /\ last_height = 0
    /\ scrolls = 0
    /\ iterations = 0
    /\ scroll_cmds = 0
    /\ heights = {}
    /\ readings = <<>>
    /\ page_urls = {}
    /\ saved = NoFile
    /\ quit_calls = 0
    /\ steps = {}
    /\ abort = "none"
    /\ dom_urls = {}
    /\ log_raised = "no"
    /\ n_url = None
    /\ n_index = 0
    /\ n_seeds = <<>>
    /\ n_names = <<>>
    /\ c_url = None
    /\ c_verdict = "none"
    /\ r_source = "none"
    /\ r_urls = {}
    /\ r_text = "(no file)"
    /\ r_loaded = <<>>
    /\ r_pc = "off"

SpecScenario == ScenarioInit /\ [][Next]_vars

\* a URL with the content id of UrlContentId on another host and path
UrlSameId == "https://y.fbcdn.net/v/t51.1-15/12_34_56_n.jpg"

\* files of two lines whose URLs may derive the same base name: the same URL
\* twice, two URLs of one content id, two URLs named by their hash
TwinUrls == {UrlContentId, UrlSameId, UrlHashed}

TwinFiles == {FileText(<<a, b>>) : a, b \in TwinUrls}

\* download_images_from_file on a file of two such URLs and an empty output
\* directory
TwinInit ==
    /\ urls_file \in TwinFiles
    /\ urls = <<>>
    /\ i = 0
    /\ pc = "idle"
    /\ filename = None
    /\ total = 0
    /\ requests = 0
    /\ seen = {}
    /\ result = NoResult
    /\ successful = 0
    /\ failed = 0
    /\ outdir = EmptyDir
    /\ seed \in Seeds
    /\ prev = NoPrev
    /\ requested = FALSE
    /\ slept = FALSE
    /\ attempts = <<>>
    /\ outcomes = <<>>
    /\ kinds = <<>>
    /\ before = EmptyDir
    /\ targets = <<>>
    /\ rundir = EmptyDir
    /\ spc = "off"
    /\ driver = "none"
    /\ last_height = 0
    /\ scrolls = 0
    /\ iterations = 0
    /\ scroll_cmds = 0
    /\ heights = {}
    /\ readings = <<>>
    /\ page_urls = {}
    /\ saved = NoFile
    /\ quit_calls = 0
    /\ steps = {}
    /\ abort = "none"
    /\ dom_urls = {}
    /\ log_raised = "no"
    /\ n_url = None
    /\ n_index = 0
    /\ n_seeds = <<>>
    /\ n_names = <<>>
    /\ c_url = None
    /\ c_verdict = "none"
    /\ r_source = "none"
    /\ r_urls = {}
    /\ r_text = "(no file)"
    /\ r_loaded = <<>>
    /\ r_pc = "off"

SpecTwins == TwinInit /\ [][Next]_vars


(***************************************************************************)
(* instagram_scraper_automated.py: discovery.                              *)
(***************************************************************************)

\* scroll_and_load_all(driver, max_scrolls=50, ...)
max_scrolls == 50

\* the document heights a page of the model may report
Heights == {1000, 2000}

\* a loop that only ends at the end of the page
LoopGuard_forever == TRUE

\* while scrolls < max_scrolls
LoopGuard == scrolls < max_scrolls

\* a loop that gives up after the nudge whatever the height is then
StillUnchanged_any(new_height) == TRUE

\* if new_height == last_height, after the nudge
StillUnchanged(new_height) == new_height = last_height

\* a nudge that only scrolls to the bottom again
NudgeScripts_down_only == <<"window.scrollTo(0, document.body.scrollHeight);">>

\* the scripts of the nudge: scroll up a bit, then back down
NudgeScripts ==
    <<"window.scrollTo(0, document.body.scrollHeight - 1000);",
      "window.scrollTo(0, document.body.scrollHeight);">>

U_post == "https://x.fbcdn.net/v/t51.82787-15/12_34_56_n.jpg"

U_profile == "https://x.fbcdn.net/v/t51.2885-19/9_n.jpg"

U_thumb == "https://scontent.cdninstagram.com/v/1_2_3_n.jpg?stp=dst-jpg_s150x150"

U_bare == "https://scontent.cdninstagram.com/v/t51.2885-15/s150x150/1_2_3_n.jpg"

U_other == "https://example.org/logo.png"

U_relative == "//scontent.cdninstagram.com/v/4_5_6_n.jpg"

\* the inline filter of both channels: a CDN URL with none of three patterns
InlineThumbs == {"_s150x150", "_s100x100", "/t51.2885-19/"}

Admits(u) ==
    /\ (Contains(u, "instagram") \/ Contains(u, "fbcdn.net"))
    /\ ~AnyIn(InlineThumbs, u)

\* the entries of one srcset, in order: src_url.strip().split()[0] raises
\* IndexError on a blank entry, which ends the extraction
RECURSIVE SrcsetUrls(_, _)
SrcsetUrls(entries, acc) ==
    IF entries = <<>> THEN [urls |-> acc, raised |-> FALSE]
    ELSE LET fields == SplitBlank(Strip(Head(entries)))
         IN  IF fields = <<>> THEN [urls |-> acc, raised |-> TRUE]
             ELSE SrcsetUrls(Tail(entries),
                             IF Admits(fields[1]) THEN acc \cup {fields[1]} ELSE acc)

\* extract_image_urls_from_dom over the img elements found: the src, then the
\* srcset of each; an exception ends the loop and the URLs found so far are
\* returned
RECURSIVE DomUrls(_, _)
DomUrls(images, acc) ==
    IF images = <<>> THEN acc
    ELSE LET img == Head(images)
             with_src == IF img.src # None /\ Admits(img.src)
                         THEN acc \cup {img.src} ELSE acc
             from_set == IF img.srcset # None
                         THEN SrcsetUrls(Split(img.srcset, ","), with_src)
                         ELSE [urls |-> with_src, raised |-> FALSE]
         IN  IF from_set.raised THEN from_set.urls
             ELSE DomUrls(Tail(images), from_set.urls)

extract_image_urls_from_dom(images) == DomUrls(images, {})

\* extract_image_urls_from_network_logs over the entries of the performance
\* log: an entry that does not parse raises, which ends the loop
RECURSIVE LogUrls(_, _)
LogUrls(logs, acc) ==
    IF logs = <<>> THEN acc
    ELSE LET log == Head(logs)
         IN  IF log.malformed THEN acc
             ELSE LogUrls(Tail(logs),
                          IF /\ log.method = "Network.responseReceived"
                             /\ Contains(log.mimeType, "image")
                             /\ Admits(log.url)
                          THEN acc \cup {log.url} ELSE acc)

extract_image_urls_from_network_logs(logs) == LogUrls(logs, {})

\* the loop over the entries raised: an entry did not parse
LogRaises(logs) == \E k \in 1..Len(logs) : logs[k].malformed

\* the longest list of img elements and of log entries of the model
MaxItems == 2

ImgChoices ==
    {[src |-> u, srcset |-> None] : u \in {U_post, U_profile, U_thumb, U_bare, U_other}}
    \cup {[src |-> None, srcset |-> U_post \o " 640w, " \o U_bare \o " 150w"],
          [src |-> U_post, srcset |-> U_thumb \o " 1x,"],
          [src |-> None, srcset |-> U_relative \o " 640w"],
          [src |-> None, srcset |-> None]}

LogChoices ==
    {[method |-> "Network.responseReceived", url |-> u, mimeType |-> "image/jpeg",
      malformed |-> FALSE] : u \in {U_post, U_profile, U_bare, U_other}}
    \cup {[method |-> "Network.responseReceived", url |-> U_post, mimeType |-> "text/html",
           malformed |-> FALSE],
          [method |-> "Network.requestWillBeSent", url |-> U_bare, mimeType |-> "image/jpeg",
           malformed |-> FALSE],
          [method |-> "", url |-> "", mimeType |-> "", malformed |-> TRUE]}

\* what extract_image_urls_from_dom returns on the pages of the model
DomResults ==
    {extract_image_urls_from_dom(images) : images \in SeqsUpTo(ImgChoices, MaxItems)}

\* what extract_image_urls_from_network_logs returns on the logs of the model,
\* and whether its loop raised
LogResults ==
    {[urls |-> extract_image_urls_from_network_logs(logs), raised |-> LogRaises(logs)] :
        logs \in SeqsUpTo(LogChoices, MaxItems)}

\* a scrape is about to start; nothing else is running
SInit ==
    /\ spc = "start"
    /\ driver = "none"
    /\ last_height = 0
    /\ scrolls = 0
    /\ iterations = 0
    /\ scroll_cmds = 0
    /\ heights = {}
    /\ readings = <<>>
    /\ page_urls = {}
    /\ saved \in {NoFile, U_profile \o "\n"}
    /\ quit_calls = 0
    /\ steps = {}
    /\ abort = "none"
    /\ dom_urls = {}
    /\ log_raised = "no"
    /\ urls_file = ""
    /\ urls = <<>>
    /\ i = 0
    /\ pc = "off"
    /\ filename = None
    /\ total = 0
    /\ requests = 0
    /\ seen = {}
    /\ result = NoResult
    /\ successful = 0
    /\ failed = 0
    /\ outdir = EmptyDir
    /\ seed = 0
    /\ prev = NoPrev
    /\ requested = FALSE
    /\ slept = FALSE
    /\ attempts = <<>>
    /\ outcomes = <<>>
    /\ kinds = <<>>
    /\ before = EmptyDir
    /\ targets = <<>>
    /\ rundir = EmptyDir
    /\ n_url = None
    /\ n_index = 0
    /\ n_seeds = <<>>
    /\ n_names = <<>>
    /\ c_url = None
    /\ c_verdict = "none"
    /\ r_source = "none"
    /\ r_urls = {}
    /\ r_text = "(no file)"
    /\ r_loaded = <<>>
    /\ r_pc = "off"

ScrollLocals == <<last_height, scrolls, iterations, scroll_cmds, heights, readings>>

\* the locals of scroll_and_load_all are gone once it has returned or raised
ScrollLocalsGone ==
    /\ last_height' = 0
    /\ scrolls' = 0
    /\ iterations' = 0
    /\ scroll_cmds' = 0
    /\ heights' = {}
    /\ readings' = <<>>

\* driver = setup_driver(headless): the session, or the exception re-raised
Setup ==
    /\ spc = "start"
    /\ \/ /\ driver' = "open"
          /\ spc' = "navigate"
          /\ abort' = abort
       \/ /\ driver' = driver
          /\ spc' = "except"
          /\ abort' = "setup"
    /\ UNCHANGED <<ScrollLocals, page_urls, saved, quit_calls, steps, dom_urls,
                   log_raised, dvars, nvars>>

\* driver.get(url) and the wait
Navigate ==
    /\ spc = "navigate"
    /\ \/ /\ spc' = "check"
          /\ abort' = abort
       \/ /\ spc' = "except"
          /\ abort' = "exception"
    /\ UNCHANGED <<driver, ScrollLocals, page_urls, saved, quit_calls, steps,
                   dom_urls, log_raised, dvars, nvars>>

\* an availability check that only prints
AfterUnavailable_goes_on == "scroll"

\* the return of the availability check: straight to the finally clause
AfterUnavailable == "finally"

\* the page says the account is not available: return; or it does not
CheckPage ==
    /\ spc = "check"
    /\ \/ /\ spc' = AfterUnavailable
          /\ abort' = "unavailable"
       \/ /\ spc' = "scroll"
          /\ abort' = abort
       \/ /\ spc' = "except"
          /\ abort' = "exception"
    /\ UNCHANGED <<driver, ScrollLocals, page_urls, saved, quit_calls, steps,
                   dom_urls, log_raised, dvars, nvars>>

\* scroll_and_load_all up to the loop: the first height is read
ScrollStart ==
    /\ spc = "scroll"
    /\ \/ \E h \in Heights :
            /\ last_height' = h
            /\ heights' = {h}
            /\ spc' = "scrolling"
            /\ abort' = abort
            /\ UNCHANGED <<scrolls, iterations, scroll_cmds, readings>>
       \/ /\ spc' = "except"
          /\ abort' = "exception"
          /\ UNCHANGED ScrollLocals
    /\ UNCHANGED <<driver, page_urls, saved, quit_calls, steps, dom_urls,
                   log_raised, dvars, nvars>>

\* one iteration of the loop: scroll to the bottom and read the height; when
\* it is unchanged, nudge and read it again; when it is still unchanged, break
ScrollIteration ==
    /\ spc = "scrolling"
    /\ LoopGuard
    /\ \/ \E h \in Heights \ {last_height} :
            /\ scroll_cmds' = scroll_cmds + 1
            /\ heights' = heights \cup {h}
            /\ readings' = <<h>>
            /\ last_height' = h
            /\ scrolls' = scrolls + 1
            /\ iterations' = iterations + 1
            /\ spc' = "scrolling"
            /\ steps' = steps \cup {"scroll"}
            /\ abort' = abort
       \/ \E h \in Heights :
            /\ scroll_cmds' = scroll_cmds + 1 + Len(NudgeScripts)
            /\ heights' = heights \cup {h}
            /\ readings' = <<last_height, h>>
            /\ iterations' = iterations + 1
            /\ steps' = steps \cup {"scroll"}
            /\ abort' = abort
            /\ IF StillUnchanged(h)
               THEN /\ spc' = "scrolled"
                    /\ UNCHANGED <<last_height, scrolls>>
               ELSE /\ last_height' = h
                    /\ scrolls' = scrolls + 1
                    /\ spc' = "scrolling"
       \/ /\ spc' = "except"
          /\ abort' = "exception"
          /\ steps' \in {steps, steps \cup {"scroll"}}
          /\ ScrollLocalsGone
    /\ UNCHANGED <<driver, page_urls, saved, quit_calls, dom_urls, log_raised,
                   dvars, nvars>>

\* the loop condition is false: the cap is reached
ScrollCap ==
    /\ spc = "scrolling"
    /\ ~LoopGuard
    /\ spc' = "scrolled"
    /\ UNCHANGED <<driver, ScrollLocals, page_urls, saved, hvars, dvars, nvars>>

\* scroll_and_load_all prints the number of scrolls and returns
ScrollReturn ==
    /\ spc = "scrolled"
    /\ ScrollLocalsGone
    /\ spc' = "dom"
    /\ UNCHANGED <<driver, page_urls, saved, hvars, dvars, nvars>>

\* urls = extract_image_urls_from_dom(driver): find_elements raises (nothing
\* found), or returns the img elements
ExtractDom ==
    /\ spc = "dom"
    /\ \/ page_urls' = {}
       \/ page_urls' \in DomResults
    /\ dom_urls' = page_urls'
    /\ steps' = steps \cup {"dom"}
    /\ spc' = "dom_done"
    /\ UNCHANGED <<driver, ScrollLocals, saved, quit_calls, abort, log_raised,
                   dvars, nvars>>

\* a merge that keeps the network channel's URLs only
Merged_replaced(urls_found, network_urls) == network_urls

\* urls.update(network_urls)
Merged(urls_found, network_urls) == urls_found \cup network_urls

\* urls.update(extract_image_urls_from_network_logs(driver)): get_log raises
\* (nothing found), or returns the entries
ExtractNetwork ==
    /\ spc = "dom_done"
    /\ \/ /\ page_urls' = Merged(page_urls, {})
          /\ log_raised' = "get_log"
       \/ \E r \in LogResults :
            /\ page_urls' = Merged(page_urls, r.urls)
            /\ log_raised' = IF r.raised THEN "parse" ELSE "no"
    /\ steps' = steps \cup {"network"}
    /\ spc' = "extracted"
    /\ UNCHANGED <<driver, ScrollLocals, saved, quit_calls, abort, dom_urls,
                   dvars, nvars>>

\* if urls: open instagram_urls.txt for writing and write sorted(urls), a URL
\* per line; the open raises, or a write raises after some lines
Save ==
    /\ spc = "extracted"
    /\ IF page_urls = {}
       THEN /\ spc' = "finally"
            /\ UNCHANGED <<saved, steps, abort>>
       ELSE \/ /\ saved' = saved
               /\ steps' = steps
               /\ abort' = "exception"
               /\ spc' = "except"
            \/ \E lines \in {Sorted(page_urls)} :
                  \/ /\ saved' = FileText(lines)
                     /\ steps' = steps \cup {"write"}
                     /\ abort' = abort
                     /\ spc' = "finally"
                  \/ \E k \in 0..(Len(lines) - 1) :
                        /\ saved' = FileText(SubSeq(lines, 1, k))
                        /\ steps' = steps \cup {"write"}
                        /\ abort' = "exception"
                        /\ spc' = "except"
    /\ UNCHANGED <<driver, ScrollLocals, page_urls, quit_calls, dom_urls,
                   log_raised, dvars, nvars>>

\* except Exception as e: print it
Except ==
    /\ spc = "except"
    /\ spc' = "finally"
    /\ UNCHANGED <<driver, ScrollLocals, page_urls, saved, hvars, dvars, nvars>>

\* a cleanup that forgets the session
ShouldQuit_never == FALSE

\* if driver:
ShouldQuit == driver = "open"

\* finally: if driver: driver.quit()
Finally ==
    /\ spc = "finally"
    /\ IF ShouldQuit
       THEN /\ driver' = "quit"
            /\ quit_calls' = quit_calls + 1
       ELSE UNCHANGED <<driver, quit_calls>>
    /\ spc' = "end"
    /\ UNCHANGED <<ScrollLocals, page_urls, saved, steps, abort, dom_urls,
                   log_raised, dvars, nvars>>

SNext ==
    \/ Setup
    \/ Navigate
    \/ CheckPage
    \/ ScrollStart
    \/ ScrollIteration
    \/ ScrollCap
    \/ ScrollReturn
    \/ ExtractDom
    \/ ExtractNetwork
    \/ Save
    \/ Except
    \/ Finally

SpecScrape == SInit /\ [][SNext]_vars

\* the scrape with every step eventually taken: each call of the driver returns
\* or raises
SpecScrapeFair == SInit /\ [][SNext]_vars /\ WF_vars(SNext)

(***************************************************************************)
(* get_filename_from_url in two processes.                                 *)
(***************************************************************************)

\* the greatest index of the model
MaxIndex == 2

NameUrls ==
    {UrlContentId, UrlBasename, UrlHashed, U_bare, U_other,
     "https://x.fbcdn.net/v/1_2_3_n.jpeg/p1080x1080",
     "https://x.fbcdn.net/v/1_2_n.jpg#top",
     "https://x.fbcdn.net/v/t51.82787-15/media?name=a.jpg",
     "https://example.org"}

\* a URL and an index (0 for none) are given to two processes
NInit ==
    /\ n_url \in NameUrls
    /\ n_index \in 0..MaxIndex
    /\ n_seeds \in Seeds \X Seeds
    /\ n_names = <<>>
    /\ c_url = None
    /\ c_verdict = "none"
    /\ r_source = "none"
    /\ r_urls = {}
    /\ r_text = "(no file)"
    /\ r_loaded = <<>>
    /\ r_pc = "off"
    /\ urls_file = ""
    /\ urls = <<>>
    /\ i = 0
    /\ pc = "off"
    /\ filename = None
    /\ total = 0
    /\ requests = 0
    /\ seen = {}
    /\ result = NoResult
    /\ successful = 0
    /\ failed = 0
    /\ outdir = EmptyDir
    /\ seed = 0
    /\ prev = NoPrev
    /\ requested = FALSE
    /\ slept = FALSE
    /\ attempts = <<>>
    /\ outcomes = <<>>
    /\ kinds = <<>>
    /\ before = EmptyDir
    /\ targets = <<>>
    /\ rundir = EmptyDir
    /\ spc = "off"
    /\ driver = "none"
    /\ last_height = 0
    /\ scrolls = 0
    /\ iterations = 0
    /\ scroll_cmds = 0
    /\ heights = {}
    /\ readings = <<>>
    /\ page_urls = {}
    /\ saved = NoFile
    /\ quit_calls = 0
    /\ steps = {}
    /\ abort = "none"
    /\ dom_urls = {}
    /\ log_raised = "no"

\* the next process derives the name
Derive ==
    /\ Len(n_names) < 2
    /\ n_names' = Append(n_names,
                         get_filename_from_url(n_url, n_index, n_seeds[Len(n_names) + 1]))
    /\ UNCHANGED <<n_url, n_index, n_seeds, cvars, rvars, dvars, svars>>

NNext == Derive

SpecNames == NInit /\ [][NNext]_vars

(***************************************************************************)
(* is_full_size_image applied to the URLs of a universe.                   *)
(***************************************************************************)

ClassHosts == {"https://x.fbcdn.net/v", "https://scontent.cdninstagram.com/v",
               "https://example.org/img"}

ClassPaths == {"/", "/t51.2885-19/", "/t51.2885-15/",
               "/t51.82787-15/", "/t51.75761-15/", "/t51.71878-15/"}

ClassSizes == {"", "s150x150/", "p320x320/", "p1080x1080/", "p320x320/s1080x1080/",
               "p64x64/"}

ClassTails == {"1_2_3_n.jpg", "1_2_3_n.jpg?stp=dst-jpg_s100x100",
               "1_2_3_n.jpg?stp=dst-jpg_s1500x1500"}

\* URLs built of a host, a path token, size tokens and a file name
ClassUrls == {h \o pt \o sz \o t : h \in ClassHosts, pt \in ClassPaths,
                                      sz \in ClassSizes, t \in ClassTails}

\* a URL is given to the classifier
CInit ==
    /\ c_url \in ClassUrls
    /\ c_verdict = "none"
    /\ urls_file = ""
    /\ urls = <<>>
    /\ i = 0
    /\ pc = "off"
    /\ filename = None
    /\ total = 0
    /\ requests = 0
    /\ seen = {}
    /\ result = NoResult
    /\ successful = 0
    /\ failed = 0
    /\ outdir = EmptyDir
    /\ seed = 0
    /\ prev = NoPrev
    /\ requested = FALSE
    /\ slept = FALSE
    /\ attempts = <<>>
    /\ outcomes = <<>>
    /\ kinds = <<>>
    /\ before = EmptyDir
    /\ targets = <<>>
    /\ rundir = EmptyDir
    /\ spc = "off"
    /\ driver = "none"
    /\ last_height = 0
    /\ scrolls = 0
    /\ iterations = 0
    /\ scroll_cmds = 0
    /\ heights = {}
    /\ readings = <<>>
    /\ page_urls = {}
    /\ saved = NoFile
    /\ quit_calls = 0
    /\ steps = {}
    /\ abort = "none"
    /\ dom_urls = {}
    /\ log_raised = "no"
    /\ n_url = None
    /\ n_index = 0
    /\ n_seeds = <<>>
    /\ n_names = <<>>
    /\ r_source = "none"
    /\ r_urls = {}
    /\ r_text = "(no file)"
    /\ r_loaded = <<>>
    /\ r_pc = "off"

\* is_full_size_image(url) returns
Classify ==
    /\ c_verdict = "none"
    /\ c_verdict' = IF is_full_size_image(c_url) THEN "accept" ELSE "reject"
    /\ UNCHANGED <<c_url, n_url, n_index, n_seeds, n_names, rvars, dvars, svars>>

CNext == Classify

SpecClassify == CInit /\ [][CNext]_vars

(***************************************************************************)
(* A URL set persisted by its producer and loaded by the downloader.       *)
(***************************************************************************)

\* extract_urls_from_network_export over the lines of the export: the second
\* tab-separated field of a line, stripped, when it starts with 'http', is a
\* CDN URL and the classifier accepts it
RECURSIVE ExportUrls(_, _)
ExportUrls(lines, acc) ==
    IF lines = <<>> THEN acc
    ELSE LET line == Strip(Head(lines))
             parts == Split(line, "\t")
             url == Strip(parts[2])
         IN  IF line = "" \/ Len(parts) < 2 THEN ExportUrls(Tail(lines), acc)
             ELSE IF /\ StartsWith(url, "http")
                     /\ (Contains(url, "instagram") \/ Contains(url, "fbcdn.net")
                         \/ Contains(url, "cdninstagram.com"))
                     /\ is_full_size_image(url)
                  THEN ExportUrls(Tail(lines), acc \cup {url})
             ELSE ExportUrls(Tail(lines), acc)

extract_urls_from_network_export(lines) == ExportUrls(lines, {})

ExportFields ==
    {U_post, U_bare, U_profile, U_other, UrlContentId, UrlBasename, UrlHashed,
     " https://x.fbcdn.net/v/7_8_9_n.webp ", "https://x.fbcdn.net/v/a b.jpg",
     "https://instagram.com/p/1_1_1_n.png", "ftp://x.fbcdn.net/v/1_2_3_n.jpg"}

ExportLines ==
    {"name\t" \o u \o "\t200\timage/jpeg" : u \in ExportFields}
    \cup {"", "1_2_3_n.jpg"}

\* what extract_urls_from_network_export returns on the exports of the model
ExportResults ==
    {extract_urls_from_network_export(lines) : lines \in SeqsUpTo(ExportLines, MaxItems)}

\* what discovery finds on the pages and logs of the model
DiscoveryResults == {Merged(d, r.urls) : d \in DomResults, r \in LogResults}

\* a producer has a URL set to save (both save only a set that is not empty)
RInit ==
    /\ \/ /\ r_source = "export"
          /\ r_urls \in ExportResults \ {{}}
       \/ /\ r_source = "discovery"
          /\ r_urls \in DiscoveryResults \ {{}}
    /\ r_text = NoFile
    /\ r_loaded = <<>>
    /\ r_pc = "produced"
    /\ urls_file = ""
    /\ urls = <<>>
    /\ i = 0
    /\ pc = "off"
    /\ filename = None
    /\ total = 0
    /\ requests = 0
    /\ seen = {}
    /\ result = NoResult
    /\ successful = 0
    /\ failed = 0
    /\ outdir = EmptyDir
    /\ seed = 0
    /\ prev = NoPrev
    /\ requested = FALSE
    /\ slept = FALSE
    /\ attempts = <<>>
    /\ outcomes = <<>>
    /\ kinds = <<>>
    /\ before = EmptyDir
    /\ targets = <<>>
    /\ rundir = EmptyDir
    /\ spc = "off"
    /\ driver = "none"
    /\ last_height = 0
    /\ scrolls = 0
    /\ iterations = 0
    /\ scroll_cmds = 0
    /\ heights = {}
    /\ readings = <<>>
    /\ page_urls = {}
    /\ saved = NoFile
    /\ quit_calls = 0
    /\ steps = {}
    /\ abort = "none"
    /\ dom_urls = {}
    /\ log_raised = "no"
    /\ n_url = None
    /\ n_index = 0
    /\ n_seeds = <<>>
    /\ n_names = <<>>
    /\ c_url = None
    /\ c_verdict = "none"

\* save_urls_to_file(urls, output_file) with the sorted list of the extraction,
\* or the write loop of scrape_instagram_account over sorted(urls)
Persist ==
    /\ r_pc = "produced"
    /\ \E lines \in {Sorted(r_urls)} : r_text' = FileText(lines)
    /\ r_pc' = "persisted"
    /\ UNCHANGED <<r_source, r_urls, r_loaded, n_url, n_index, n_seeds, n_names,
                   cvars, dvars, svars>>

\* download_images_from_file reads the URLs of the file
Load ==
    /\ r_pc = "persisted"
    /\ r_loaded' = ReadUrls(r_text)
    /\ r_pc' = "loaded"
    /\ UNCHANGED <<r_source, r_urls, r_text, n_url, n_index, n_seeds, n_names,
                   cvars, dvars, svars>>

RNext == Persist \/ Load

SpecRoundTrip == RInit /\ [][RNext]_vars

(***************************************************************************)
(* Properties of the downloader.                                           *)
(***************************************************************************)

StatusesSeen == {r.status : r \in seen}

\* C1: retry fires only for the status codes 429, 500, 502, 503, 504: while
\* another request is pending every status answered so far is one of them (0
\* stands for a timeout, which has no status); a URL answering only 404 has
\* failed after exactly one request; a URL answering only 503 has failed after
\* exactly 4 requests (3 retries); no URL is requested more than 4 times.
C1_RetryOnlyOnForcelist ==
    /\ requests <= 4
    /\ (pc = "get" /\ requests > 0) =>
           StatusesSeen \subseteq {429, 500, 502, 503, 504, 0}
    /\ (pc = "returned" /\ StatusesSeen = {404}) =>
           (requests = 1 /\ ~result.success)
    /\ (pc = "returned" /\ StatusesSeen = {503}) =>
           (requests = 4 /\ ~result.success)

C1_Witness ==
    /\ pc = "returned"
    /\ StatusesSeen = {503}
    /\ requests = 4
    /\ ~result.success

\* C2: the batch never halts on a failure: no exception leaves download_image,
\* the URLs are attempted once each in file order, each attempt is tallied
\* once, and at the end successful + failed = the number of URLs read.
C2_BatchNeverHalts ==
    /\ pc # "crashed"
    /\ attempts = SubSeq(urls, 1, i)
    /\ Len(outcomes) = IF pc \in {"call", "get", "write", "returned"} THEN i - 1 ELSE i
    /\ successful = Cardinality({k \in 1..Len(outcomes) : outcomes[k]})
    /\ failed = Cardinality({k \in 1..Len(outcomes) : ~outcomes[k]})
    /\ pc = "done" =>
           /\ attempts = urls
           /\ successful + failed = Len(urls)

C2_Witness ==
    /\ pc = "done"
    /\ outcomes = <<FALSE, TRUE>>
    /\ requested
    /\ \E n \in DOMAIN outdir : outdir[n] = "partial"

\* the names the run and the run before it derive for the URLs are the same
SameNames ==
    \A k \in 1..Len(urls) :
        get_filename_from_url(urls[k], k, seed) = get_filename_from_url(urls[k], k, prev.seed)

C4_DelayBetweenRequests ==
    (pc = "get" /\ requests = 0 /\ requested) => slept

\* C5: a file reported as a success holds the full response body.
C5_SuccessMeansComplete ==
    (pc = "returned" /\ result.success) => outdir[result.filename] = "complete"

\* C6: a 200 response whose Content-Type does not contain 'image' ends the
\* call at once as a failure whose reason starts with 'Not an image', with no
\* file created and no further request; no other failure carries that reason.
C6_NonImageRejected ==
    /\ \A r \in seen :
           (r.status = 200 /\ ~Contains(r.content_type, "image")) =>
               /\ pc = "returned"
               /\ ~result.success
               /\ result.filename = None
               /\ result.error = "Not an image: " \o r.content_type
               /\ ~Exists(filename)
    /\ (pc = "returned" /\ StartsWith(result.error, "Not an image")) =>
           \E r \in seen : r.status = 200 /\ ~Contains(r.content_type, "image")

C6_Witness ==
    /\ pc = "returned"
    /\ requests = 2
    /\ [status |-> 200, content_type |-> "text/html"] \in seen
    /\ result.error = "Not an image: text/html"

(***************************************************************************)
(* Properties of file naming.                                              *)
(***************************************************************************)

\* C7: two processes given the same URL and index derive the same file name.
C7_NamesAgree ==
    Len(n_names) = 2 => n_names[1] = n_names[2]

(***************************************************************************)
(* Properties of discovery.                                                *)
(***************************************************************************)

\* C8: whatever heights the page reports, the scroll loop runs at most
\* max_scrolls iterations and ends (or a driver call raises); when it ends at
\* the cap, scrolling returns normally and the DOM extraction runs.
C8_ScrollTerminates ==
    /\ [](iterations <= max_scrolls)
    /\ (spc = "scrolling") ~> (spc \in {"scrolled", "except"})
    /\ (spc = "scrolling" /\ scrolls = max_scrolls) ~> (spc = "dom_done")

C8_Witness ==
    /\ spc = "scrolled"
    /\ scrolls = max_scrolls
    /\ iterations = max_scrolls
    /\ Cardinality(heights) = 2

\* C9: on a page whose height never changes, scrolling ends having issued at
\* most 2 scroll commands.
C9_AtMostTwoScrollCommands ==
    (spc = "scrolled" /\ Cardinality(heights) = 1) => scroll_cmds <= 2

\* C9 (amended): on a page whose height never changes, scrolling ends after
\* one iteration, the one that nudges, having issued exactly 3 scroll commands:
\* the scroll to the bottom, the scroll up and the scroll back down.
C9_ThreeScrollCommands ==
    (spc = "scrolled" /\ Cardinality(heights) = 1) =>
        /\ scroll_cmds = 3
        /\ iterations = 1
        /\ scrolls = 0

C9_Witness ==
    /\ spc = "scrolled"
    /\ heights = {1000}
    /\ scroll_cmds = 3

\* C10: every URL admitted to the set of discovery, and every line saved from
\* it, is one that is_full_size_image accepts.
C10_StoreClassified ==
    /\ \A u \in page_urls : is_full_size_image(u)
    /\ (spc = "finally" /\ page_urls # {}) =>
           \A k \in 1..Len(Sorted(page_urls)) :
               Contains(saved, Sorted(page_urls)[k] \o "\n") =>
                   is_full_size_image(Sorted(page_urls)[k])

\* C11: once the driver is created, every run calls driver.quit() exactly once
\* and returns normally, whatever raised on the way.
C11_SessionReleased ==
    /\ [](quit_calls <= 1)
    /\ (driver = "open") ~> (spc = "end" /\ driver = "quit" /\ quit_calls = 1)
    /\ <>(spc = "end")

C11_Witness ==
    /\ spc = "end"
    /\ abort = "exception"
    /\ "write" \in steps
    /\ quit_calls = 1

\* C12: a run that could not create the session, or whose page is not
\* available, goes straight to its end: it issues no scroll command, extracts
\* nothing and writes no URL file.
C12_FatalSetupAborts ==
    abort \in {"setup", "unavailable"} =>
        /\ spc \in {"except", "finally", "end"}
        /\ steps = {}
        /\ scroll_cmds = 0
        /\ page_urls = {}
        /\ saved \in {NoFile, U_profile \o "\n"}

C12_Witness ==
    /\ spc = "end"
    /\ abort = "unavailable"
    /\ steps = {}
    /\ quit_calls = 1

\* C13: when the network-log channel raises, the URLs of the run are those of
\* the DOM channel alone.
C13_LogFailureDomAlone ==
    (log_raised # "no") => page_urls = dom_urls

\* C13 (amended): when the network-log channel raises, the run goes on, keeps
\* every URL of the DOM channel and, when the write completes, saves them all;
\* the URLs are those of the DOM channel alone when get_log raised, and may
\* hold URLs of the entries read before the one that raised otherwise.
C13_LogFailureNonFatal ==
    (log_raised # "no") =>
        /\ spc \in {"extracted", "except", "finally", "end"}
        /\ dom_urls \subseteq page_urls
        /\ (log_raised = "get_log" => page_urls = dom_urls)
        /\ ("write" \in steps /\ abort = "none") =>
               \E lines \in {Sorted(page_urls)} : saved = FileText(lines)

C13_Witness ==
    /\ spc = "end"
    /\ log_raised = "parse"
    /\ dom_urls # {}
    /\ page_urls # dom_urls
    /\ "write" \in steps
    /\ abort = "none"

(***************************************************************************)
(* Properties of the classifier.                                           *)
(***************************************************************************)

\* the post-image path tokens, the small-thumbnail size tokens
PostTokens == {"/t51.82787-15/", "/t51.75761-15/", "/t51.71878-15/"}

ThumbTokens == {"s150x150", "s100x100"}

\* the dimension of the size token at position k of the URL
SizeAt(url, k) == StrToInt(SubSeq(url, k + 1, k + SizeMatchAt(url, k)))

\* C14: a URL with a post-image path token is accepted, whatever size token it
\* holds.
C14_PostTokenAccepted ==
    (c_verdict # "none" /\ AnyIn(PostTokens, c_url)) => c_verdict = "accept"

\* C14 (amended): a URL with a post-image path token, without the profile
\* token and without a small-thumbnail token, is accepted, whatever other size
\* token it holds.
C14_PostTokenAcceptedUnlessThumb ==
    (/\ c_verdict # "none"
     /\ AnyIn(PostTokens, c_url)
     /\ ~Contains(c_url, "/t51.2885-19/")
     /\ ~AnyIn(ThumbTokens, c_url)) => c_verdict = "accept"

C14_Witness ==
    /\ c_verdict = "accept"
    /\ Contains(c_url, "example.org")
    /\ Contains(c_url, "/t51.75761-15/p320x320/")

\* C15: a URL with a size token whose dimension is below 640 is rejected.
C15_SmallSizeRejected ==
    (/\ c_verdict # "none"
     /\ \E k \in SizeMatches(c_url) : SizeAt(c_url, k) < 640) => c_verdict = "reject"

\* C15 (amended): a URL with one of the small-thumbnail tokens s150x150 and
\* s100x100, with or without an underscore before it, is rejected.
C15_ThumbTokenRejected ==
    (c_verdict # "none" /\ AnyIn(ThumbTokens, c_url)) => c_verdict = "reject"

C15_Witness ==
    /\ c_verdict = "reject"
    /\ Contains(c_url, "/t51.82787-15/s150x150/")
    /\ ~Contains(c_url, "_s1")

\* C16: the verdict is that of the five rules, the first that applies: reject
\* on the profile token, reject on a small-thumbnail token, accept on a post
\* token, accept on some size token of dimension 640 or more, and otherwise
\* accept exactly a CDN URL without a rejected-thumbnail token.
C16_FiveRules ==
    c_verdict # "none" =>
        (c_verdict = "accept") =
            (IF Contains(c_url, "/t51.2885-19/") THEN FALSE
             ELSE IF AnyIn({"_s150x150", "_s100x100", "s150x150", "s100x100"}, c_url)
                  THEN FALSE
             ELSE IF AnyIn(PostTokens, c_url) THEN TRUE
             ELSE IF \E k \in SizeMatches(c_url) : SizeAt(c_url, k) >= 640 THEN TRUE
             ELSE /\ (Contains(c_url, "instagram") \/ Contains(c_url, "fbcdn.net"))
                  /\ ~AnyIn({"_s150", "_s100", "s150x150", "s100x100"}, c_url))

(***************************************************************************)
(* Properties of persist and load.                                         *)
(***************************************************************************)

\* C17: the list loaded from the file a producer saved is the sorted list of
\* the URLs of its set.
C17_RoundTrip ==
    r_pc = "loaded" => \E lines \in {Sorted(r_urls)} : r_loaded = lines


\* C18: when a run over a file of three URLs and an empty output directory
\* has ended, and one URL was answered 200 image/jpeg and stored in full, one
\* was answered 200 text/html and one was answered 503 on every request the
\* session makes, the summary counts are successful = 1, failed = 2, and the
\* total is 3
C18_Scenario ==
    (/\ pc = "done"
     /\ ~prev.ran
     /\ Len(kinds) = 3
     /\ {kinds[k] : k \in 1..Len(kinds)} = {"image", "html", "always503"})
    => (successful = 1 /\ failed = 2 /\ Len(urls) = 3)

C18_Witness ==
    /\ pc = "done"
    /\ ~prev.ran
    /\ kinds = <<"always503", "image", "html">>
    /\ successful = 1
    /\ failed = 2
    /\ Len(urls) = 3


\* C19: an iteration of the scroll loop that runs to its end leaves the loop
\* only when the height read after the scroll and the height read after the
\* nudge both equal the last recorded height; in every other case the last
\* recorded height becomes the height read last, the scroll counter grows by
\* one and control returns to the loop test
C19_StopOnlyWhenUnchangedTwice ==
    [][(spc = "scrolling" /\ LoopGuard /\ spc' # "except") =>
         LET unchanged == /\ Len(readings') = 2
                          /\ readings'[1] = last_height
                          /\ readings'[2] = last_height
         IN /\ readings' # <<>>
            /\ Len(readings') = 2 => readings'[1] = last_height
            /\ spc' = "scrolled" <=> unchanged
            /\ ~unchanged =>
                  /\ last_height' = readings'[Len(readings')]
                  /\ scrolls' = scrolls + 1
                  /\ spc' = "scrolling"]_vars

C19_Witness ==
    /\ spc = "scrolled"
    /\ scrolls \in 1..(max_scrolls - 1)
    /\ readings = <<last_height, last_height>>
    /\ Cardinality(heights) = 2
    /\ scroll_cmds > iterations + Len(NudgeScripts)


\* C20: a file that is in the output directory when a call of download_image
\* begins is still there with the same content while the call runs and when
\* it has returned; when the target of the call is such a file, the call makes
\* no request and returns success with that file name; and no step of any run
\* removes a file or changes one that was there when the call began
C20_ExistingFilesUntouched ==
    /\ [](pc \in {"call", "get", "write", "returned"} =>
            /\ \A f \in DOMAIN before : f \in DOMAIN outdir /\ outdir[f] = before[f]
            /\ (pc \in {"get", "write"} => filename \notin DOMAIN before)
            /\ (pc = "returned" /\ filename \in DOMAIN before) =>
                   (requests = 0 /\ result = Returned(TRUE, filename, None)))
    /\ [][\A f \in DOMAIN outdir :
             /\ f \in DOMAIN outdir'
             /\ outdir'[f] # outdir[f] => (f = filename /\ f \notin DOMAIN before)]_vars

C20_Witness ==
    /\ pc = "returned"
    /\ prev.ran
    /\ filename \in DOMAIN before
    /\ before[filename] = "partial"
    /\ outdir[filename] = "partial"
    /\ result = Returned(TRUE, filename, None)
    /\ requests = 0
    /\ i = 2


\* the part of a target file name after the index prefix
BaseOf(name) == SubSeq(name, 6, Len(name))

\* C21: in a run, the target file names of different list positions differ,
\* each beginning with its position padded to four digits and "_"; a call
\* finds its target present only when the file was there before the run
\* began, a call that fetches writes a name no earlier position of the run
\* had, and every file the run added is the target of one position
C21_TargetsDistinct ==
    /\ \A j, k \in 1..Len(targets) : targets[j] = targets[k] => j = k
    /\ \A k \in 1..Len(targets) : SubSeq(targets[k], 1, 5) = "000" \o DigitStr(k) \o "_"
    /\ (pc = "call" /\ Exists(filename)) => filename \in DOMAIN rundir
    /\ pc \in {"call", "get", "write", "returned"} =>
          /\ filename = targets[i]
          /\ \A j \in 1..(i - 1) : targets[j] # filename
    /\ pc \in {"loop", "call", "get", "write", "returned", "done"} =>
          \A f \in (DOMAIN outdir) \ (DOMAIN rundir) :
              \E k \in 1..Len(targets) : targets[k] = f

C21_Witness ==
    /\ pc = "done"
    /\ ~prev.ran
    /\ Len(targets) = 2
    /\ attempts[1] # attempts[2]
    /\ BaseOf(targets[1]) = BaseOf(targets[2])
    /\ \A k \in 1..2 : Exists(targets[k]) /\ outdir[targets[k]] = "complete"
    /\ successful = 2

====
